---------------------------- MODULE Spec2Model ----------------------------
(***************************************************************************)
(* Model of the Strava webhook receiver (src/src/main.rs).                 *)
(*                                                                         *)
(* The process opens a SQLite pool, creates the processed_activities table *)
(* and serves one route, /webhook, for GET and POST with the same handler. *)
(* The handler echoes a hub.challenge query parameter or decodes a         *)
(* StravaEvent and spawns process_activity for it.  process_activity is a  *)
(* chain of awaits: SELECT, GET activity, (filters), PUT activity, INSERT.  *)
(* Each await is one step of a processing unit; units interleave freely.   *)
(***************************************************************************)
EXTENDS Integers, Sequences, FiniteSets, TLC

VARIABLES
    phase,      \* position of main: "start", "connected", "migrated",
                \* "listening", "failed"
    db,         \* the SQLite database: is the pool open, does the table exist
    conn,       \* per request slot: the HTTP exchange (request, response, state)
    unit,       \* per request slot: the task spawned by the handler, if any
    store,      \* rows of the processed_activities table
    now,        \* the database clock behind CURRENT_TIMESTAMP
    strava      \* the activities held by the external service, by id

vars == <<phase, db, conn, unit, store, now, strava>>

---------------------------------------------------------------------------
(* Bounds of the model *)

MaxRequests == 2
MaxClock == 1

Slots == 1..MaxRequests

---------------------------------------------------------------------------
(* Text: a String is a sequence of one-character strings, so that          *)
(* to_lowercase is computed and not assumed.                               *)

UpperCase == <<"A","B","C","D","E","F","G","H","I","J","K","L","M",
               "N","O","P","Q","R","S","T","U","V","W","X","Y","Z">>
LowerCase == <<"a","b","c","d","e","f","g","h","i","j","k","l","m",
               "n","o","p","q","r","s","t","u","v","w","x","y","z">>

to_lowercase_char(c) ==
    IF \E i \in 1..Len(UpperCase) : UpperCase[i] = c
    THEN LowerCase[CHOOSE i \in 1..Len(UpperCase) : UpperCase[i] = c]
    ELSE c

to_lowercase(s) == [i \in 1..Len(s) |-> to_lowercase_char(s[i])]

TargetType == <<"w","a","l","k">>

---------------------------------------------------------------------------
(* chrono: DateTime::parse_from_rfc3339 and weekday().                     *)
(* A timestamp string is modelled by its shape and its calendar date:      *)
(*   form "rfc3339": date, time and offset ("2024-01-05T07:30:00Z")        *)
(*   form "naive":   date and time without offset                          *)
(*   form "garbage": no date at all ("not-a-date")                         *)

IsLeap(y) == (y % 4 = 0 /\ y % 100 # 0) \/ y % 400 = 0

DaysInMonth(y, m) ==
    IF m = 2 THEN (IF IsLeap(y) THEN 29 ELSE 28)
    ELSE IF m \in {4, 6, 9, 11} THEN 30 ELSE 31

ValidDate(y, m, d) == m \in 1..12 /\ d >= 1 /\ d <= DaysInMonth(y, m)

\* Days since 1970-01-01 of a proleptic Gregorian date.
DaysFromCivil(y, m, d) ==
    LET yy  == IF m <= 2 THEN y - 1 ELSE y
        era == yy \div 400
        yoe == yy - era * 400
        mp  == (m + 9) % 12
        doy == (153 * mp + 2) \div 5 + d - 1
        doe == yoe * 365 + yoe \div 4 - yoe \div 100 + doy
    IN  era * 146097 + doe - 719468

WeekdayNames == <<"Mon","Tue","Wed","Thu","Fri","Sat","Sun">>

\* 1970-01-01 was a Thursday.
weekday(y, m, d) == WeekdayNames[((DaysFromCivil(y, m, d) + 3) % 7) + 1]

\* A parser that also takes a timestamp without offset.
parse_from_rfc3339_Lenient(ts) ==
    IF ts.form \in {"rfc3339", "naive"} /\ ValidDate(ts.y, ts.m, ts.d)
    THEN [ok |-> TRUE,  y |-> ts.y, m |-> ts.m, d |-> ts.d]
    ELSE [ok |-> FALSE, y |-> 0, m |-> 0, d |-> 0]

parse_from_rfc3339(ts) ==
    IF ts.form = "rfc3339" /\ ValidDate(ts.y, ts.m, ts.d)
    THEN [ok |-> TRUE,  y |-> ts.y, m |-> ts.m, d |-> ts.d]
    ELSE [ok |-> FALSE, y |-> 0, m |-> 0, d |-> 0]

---------------------------------------------------------------------------
(* The geofence of process_activity.  Coordinates are in tenths of a       *)
(* degree: 40.0 is 400.                                                    *)

LatMin == 400
LatMax == 410
LngMin == 0 - 740
LngMax == 0 - 730

\* A geofence with its bounds excluded.
InGeofence_Strict(lat, lng) ==
    lat > LatMin /\ lat < LatMax /\ lng > LngMin /\ lng < LngMax

InGeofence(lat, lng) ==
    lat >= LatMin /\ lat <= LatMax /\ lng >= LngMin /\ lng <= LngMax

---------------------------------------------------------------------------
(* JSON values and the two Deserialize structs.                            *)

Str(s) == [t |-> "string", s |-> s, n |-> 0]
Num(n) == [t |-> "number", s |-> "", n |-> n]

IsString(v) == v.t = "string"
IsU64(v) == v.t = "number" /\ v.n >= 0

ActivityIds == {101, 102}

EventJson(otype, oid) ==
    [aspect_type |-> Str("create"), event_time |-> Num(1), object_id |-> Num(oid),
     object_type |-> Str(otype), owner_id |-> Num(7), subscription_id |-> Num(9)]

\* An event object without its object_id field.
EventJsonNoId ==
    [aspect_type |-> Str("create"), event_time |-> Num(1),
     object_type |-> Str("activity"), owner_id |-> Num(7), subscription_id |-> Num(9)]

\* An event object whose object_id is a string.
EventJsonStringId ==
    [aspect_type |-> Str("create"), event_time |-> Num(1), object_id |-> Str("101"),
     object_type |-> Str("activity"), owner_id |-> Num(7), subscription_id |-> Num(9)]

JsonPayloads ==
    {EventJson("activity", id) : id \in ActivityIds}
        \cup {EventJson("athlete", 101), EventJson("Activity", 101),
              EventJsonNoId, EventJsonStringId}

NoJson == [absent |-> Num(0)]

\* struct StravaEvent: every field but `updates` is required.
StravaEventStrings == {"aspect_type", "object_type"}
StravaEventU64s == {"event_time", "object_id", "owner_id", "subscription_id"}

\* serde_json::from_value::<StravaEvent>
from_value_StravaEvent(payload) ==
    IF /\ (StravaEventStrings \cup StravaEventU64s) \subseteq DOMAIN payload
       /\ \A f \in StravaEventStrings : IsString(payload[f])
       /\ \A f \in StravaEventU64s : IsU64(payload[f])
    THEN [ok |-> TRUE, object_type |-> payload["object_type"].s,
          object_id |-> payload["object_id"].n]
    ELSE [ok |-> FALSE, object_type |-> "", object_id |-> 0]

---------------------------------------------------------------------------
(* HTTP requests and responses on /webhook.                                *)

Methods == {"GET", "POST"}

\* The query string: hub.challenge absent, or present with a token.
Queries == {[present |-> FALSE, value |-> ""], [present |-> TRUE, value |-> "XYZ123"]}

\* The body: "none" has no body and no JSON content type, "malformed" is sent
\* as application/json and is no JSON text, "json" is a JSON document.
Bodies ==
    {[kind |-> "none", json |-> NoJson], [kind |-> "malformed", json |-> NoJson]}
        \cup {[kind |-> "json", json |-> p] : p \in JsonPayloads}

Requests == [method : Methods, query : Queries, body : Bodies]

\* The statuses axum's Json extractor rejects a request with (the crate version
\* decides which one a given cause gets).
RejectStatuses == {400, 415, 422}

NoReq == [method |-> "", query |-> [present |-> FALSE, value |-> ""],
          body |-> [kind |-> "none", json |-> NoJson]]
NoResp == [status |-> 0, body |-> ""]

IdleConn == [state |-> "idle", req |-> NoReq, resp |-> NoResp]
SentConn == [state |-> "sent", req |-> NoReq, resp |-> NoResp]

---------------------------------------------------------------------------
(* Activities of the external service.                                     *)

Coords(present, cs) == [present |-> present, coords |-> cs]

Timestamp(form, y, m, d) == [form |-> form, y |-> y, m |-> m, d |-> d]

ActivityRecord(type, ts, latlng) ==
    [type |-> type, start_date_local |-> ts, start_latlng |-> latlng,
     name |-> "Morning Walk", private |-> FALSE]

Walk == <<"W","a","l","k">>
Run == <<"R","u","n">>

Monday == Timestamp("rfc3339", 2024, 1, 1)
NotADate == Timestamp("garbage", 0, 0, 0)

InBox == Coords(TRUE, <<405, 0 - 735>>)

\* The activities of the concurrency specification: one per way a unit ends.
CoreActivities ==
    {ActivityRecord(Walk, Monday, InBox),
     ActivityRecord(Run, Monday, InBox),
     ActivityRecord(Walk, NotADate, InBox),
     ActivityRecord(Walk, Monday, Coords(TRUE, <<405>>))}

\* The activities of the pipeline specification: every filter's cases.
AllTypes == {Walk, Run, <<"w","a","l","k">>, <<"W","A","L","K">>, <<"W","a","l","k","s">>}

AllTimestamps ==
    {Timestamp("rfc3339", 2024, 1, d) : d \in 1..7}
        \cup {Timestamp("naive", 2024, 1, 1), NotADate, Timestamp("rfc3339", 2023, 2, 29)}

AllCoords ==
    {Coords(FALSE, <<>>), Coords(TRUE, <<>>), Coords(TRUE, <<405>>),
     Coords(TRUE, <<405, 0 - 735, 12>>)}
        \cup {Coords(TRUE, <<lat, lng>>) :
                lat \in {399, 400, 405, 410, 411}, lng \in {0 - 741, 0 - 740, 0 - 735, 0 - 730, 0 - 729}}

AllActivities ==
    {ActivityRecord(t, ts, c) : t \in AllTypes, ts \in AllTimestamps, c \in AllCoords}

\* PUT /activities/{id}: the form body of the update call.
UpdateParams == [name |-> "Rusty", private |-> "1"]

\* The service reads the form value of a boolean parameter.
FormBool(v) == v \in {"1", "true"}

UpdateStatuses == {200, 404, 500}

\* reqwest StatusCode::is_success
is_success(status) == status >= 200 /\ status < 300

---------------------------------------------------------------------------
(* The processed_activities table.                                         *)

HasRow(rows, aid) == \E row \in rows : row.activity_id = aid

\* The table without its UNIQUE constraint.
UniqueViolation_NoConstraint(rows, aid) == FALSE

\* activity_id INTEGER NOT NULL UNIQUE
UniqueViolation(rows, aid) == HasRow(rows, aid)

\* id INTEGER PRIMARY KEY AUTOINCREMENT
NextRowId(rows) ==
    IF rows = {} THEN 1
    ELSE 1 + CHOOSE n \in {row.id : row \in rows} : \A row \in rows : row.id <= n

\* An insert that keeps only the latest row.
InsertRow_KeepLatest(rows, aid, time) ==
    {[id |-> NextRowId(rows), activity_id |-> aid, processed_at |-> time]}

\* INSERT INTO processed_activities (activity_id) VALUES (?)
InsertRow(rows, aid, time) ==
    rows \cup {[id |-> NextRowId(rows), activity_id |-> aid, processed_at |-> time]}

---------------------------------------------------------------------------
(* Processing units: one task per tokio::spawn.                            *)

NoUnit ==
    [pc |-> "none", aid |-> 0, result |-> "", why |-> "", puts |-> <<>>,
     status |-> 0, rowid |-> 0, calls |-> <<>>]

NewUnit(aid) == [NoUnit EXCEPT !.pc = "check", !.aid = aid]

\* The call whose answer the unit has just got, added to its record.
Called(u, op) == [u EXCEPT !.calls = Append(@, op)]

\* A unit that starts over when a step fails.
Finish_Retry(u, result, why) ==
    IF result = "Err"
    THEN [u EXCEPT !.pc = "check"]
    ELSE [u EXCEPT !.pc = "done", !.result = result, !.why = why]

\* A unit that waits for ever when a step fails.
Finish_Hang(u, result, why) ==
    IF result = "Err"
    THEN [u EXCEPT !.pc = "hung"]
    ELSE [u EXCEPT !.pc = "done", !.result = result, !.why = why]

Finish(u, result, why) == [u EXCEPT !.pc = "done", !.result = result, !.why = why]

\* The filters with the timestamp parsed before the type is looked at.
Filter_CalendarFirst(a) ==
    LET dt == parse_from_rfc3339(a.start_date_local) IN
    IF ~dt.ok
    THEN [pc |-> "done", result |-> "Err", why |-> "timestamp parse error"]
    ELSE IF to_lowercase(a.type) # TargetType
    THEN [pc |-> "done", result |-> "Ok", why |-> "not a walk"]
    ELSE IF weekday(dt.y, dt.m, dt.d) \in {"Sat", "Sun"}
    THEN [pc |-> "done", result |-> "Ok", why |-> "weekend"]
    ELSE IF a.start_latlng.present
    THEN LET coords == a.start_latlng.coords IN
         IF Len(coords) < 2
         THEN [pc |-> "done", result |-> "Panic", why |-> "index out of bounds"]
         ELSE IF ~InGeofence(coords[1], coords[2])
         THEN [pc |-> "done", result |-> "Ok", why |-> "not in location"]
         ELSE [pc |-> "update", result |-> "", why |-> ""]
    ELSE [pc |-> "done", result |-> "Ok", why |-> "no location data"]

\* The filters of process_activity on a decoded Activity: where the unit goes.
Filter(a) ==
    IF to_lowercase(a.type) # TargetType
    THEN [pc |-> "done", result |-> "Ok", why |-> "not a walk"]
    ELSE LET dt == parse_from_rfc3339(a.start_date_local) IN
         IF ~dt.ok
         THEN [pc |-> "done", result |-> "Err", why |-> "timestamp parse error"]
         ELSE IF weekday(dt.y, dt.m, dt.d) \in {"Sat", "Sun"}
         THEN [pc |-> "done", result |-> "Ok", why |-> "weekend"]
         ELSE IF a.start_latlng.present
         THEN LET coords == a.start_latlng.coords IN
              IF Len(coords) < 2
              THEN [pc |-> "done", result |-> "Panic", why |-> "index out of bounds"]
              ELSE IF ~InGeofence(coords[1], coords[2])
              THEN [pc |-> "done", result |-> "Ok", why |-> "not in location"]
              ELSE [pc |-> "update", result |-> "", why |-> ""]
         ELSE [pc |-> "done", result |-> "Ok", why |-> "no location data"]

---------------------------------------------------------------------------
(* Initial states.                                                         *)

InitWith(activities) ==
    /\ phase = "start"
    /\ db = [open |-> FALSE, table |-> FALSE]
    /\ conn = [r \in Slots |-> IdleConn]
    /\ unit = [r \in Slots |-> NoUnit]
    /\ store = {}
    /\ now = 0
    /\ strava \in activities

\* Activity 102 passes every filter; activity 101 is any of the core ones.
SystemActivities ==
    {acts \in [ActivityIds -> CoreActivities] :
        acts[102] = ActivityRecord(Walk, Monday, InBox)}

Init == InitWith(SystemActivities)

---------------------------------------------------------------------------
(* main                                                                    *)

\* SqlitePool::connect(...).await?
main_connect ==
    /\ phase = "start"
    /\ \E ok \in BOOLEAN :
         /\ phase' = IF ok THEN "connected" ELSE "failed"
         /\ db' = [db EXCEPT !.open = ok]
    /\ UNCHANGED <<conn, unit, store, now, strava>>

\* A migration whose error is dropped instead of returned.
main_migrate_IgnoreError ==
    /\ phase = "connected"
    /\ \E ok \in BOOLEAN :
         /\ phase' = "migrated"
         /\ db' = [db EXCEPT !.table = ok]
    /\ UNCHANGED <<conn, unit, store, now, strava>>

\* CREATE TABLE IF NOT EXISTS processed_activities ... .execute(&pool).await?
main_migrate ==
    /\ phase = "connected"
    /\ \E ok \in BOOLEAN :
         /\ phase' = IF ok THEN "migrated" ELSE "failed"
         /\ db' = [db EXCEPT !.table = ok]
    /\ UNCHANGED <<conn, unit, store, now, strava>>

\* Router::new().route(...); axum::Server::bind(&addr).serve(...)
main_serve ==
    /\ phase = "migrated"
    /\ \E ok \in BOOLEAN : phase' = IF ok THEN "listening" ELSE "failed"
    /\ UNCHANGED <<db, conn, unit, store, now, strava>>

\* Time passes.
Tick ==
    /\ now < MaxClock
    /\ now' = now + 1
    /\ UNCHANGED <<phase, db, conn, unit, store, strava>>

---------------------------------------------------------------------------
(* webhook_handler                                                         *)

\* The Json<serde_json::Value> extractor: it wants a JSON content type and a
\* body that is JSON text, whatever the method.
JsonExtractor(req) == req.body.kind = "json"

\* What the handler body does with an extracted request: the response and the
\* activity id to spawn process_activity for (0: nothing is spawned).
HandlerBody(req) ==
    IF req.query.present
    THEN [resp |-> [status |-> 200, body |-> req.query.value], spawn |-> 0]
    ELSE LET event == from_value_StravaEvent(req.body.json) IN
         [resp |-> [status |-> 200, body |-> "OK"],
          spawn |-> IF event.ok /\ event.object_type = "activity"
                    THEN event.object_id ELSE 0]

webhook_handler(r) ==
    /\ phase = "listening"
    /\ conn[r].state = "idle"
    \* requests are read off one keep-alive connection: the next one is read
    \* once the previous response is written
    /\ r > 1 => conn[r - 1].state = "sent"
    /\ \E req \in Requests :
         IF JsonExtractor(req)
         THEN LET h == HandlerBody(req) IN
              /\ conn' = [conn EXCEPT ![r] =
                            [state |-> "pending", req |-> req, resp |-> h.resp]]
              /\ unit' = IF h.spawn # 0
                         THEN [unit EXCEPT ![r] = NewUnit(h.spawn)]
                         ELSE unit
         ELSE \E status \in RejectStatuses :
              /\ conn' = [conn EXCEPT ![r] =
                            [state |-> "pending", req |-> req,
                             resp |-> [status |-> status, body |-> "rejection"]]]
              /\ unit' = unit
    /\ UNCHANGED <<phase, db, store, now, strava>>

\* A handler that awaits the task it spawned before it returns.
CanRespond_AwaitsUnit(r) ==
    conn[r].state = "pending" /\ unit[r].pc \in {"none", "done"}

\* The server writes the response the handler returned.
CanRespond(r) == conn[r].state = "pending"

respond(r) ==
    /\ CanRespond(r)
    /\ conn' = [conn EXCEPT ![r] = SentConn]
    /\ UNCHANGED <<phase, db, unit, store, now, strava>>

---------------------------------------------------------------------------
(* process_activity, one action per await                                  *)

\* A lookup whose answer is not acted on.
AfterSelect_NoEarlyReturn(u, rows) == [u EXCEPT !.pc = "fetch"]

\* What the SELECT's answer makes of the unit.
AfterSelect(u, rows) ==
    IF HasRow(rows, u.aid)
    THEN Finish(u, "Ok", "already processed")
    ELSE [u EXCEPT !.pc = "fetch"]

\* SELECT id FROM processed_activities WHERE activity_id = ? ... .await?
select_processed(r) ==
    /\ unit[r].pc = "check"
    /\ \E ok \in BOOLEAN :
         unit' = [unit EXCEPT ![r] =
                    IF ok THEN AfterSelect(Called(unit[r], "select"), store)
                    ELSE Finish(Called(unit[r], "select"), "Err", "select failed")]
    /\ UNCHANGED <<phase, db, conn, store, now, strava>>

\* What a decoded Activity makes of the unit: the filters, then the PUT is sent.
AfterFetch(u, a) ==
    LET f == Filter(a) IN
    IF f.pc = "done" THEN Finish(u, f.result, f.why)
    ELSE [u EXCEPT !.pc = "update", !.puts = Append(u.puts, UpdateParams)]

\* client.get(...).send().await?  and  res.json().await?
get_activity(r) ==
    /\ unit[r].pc = "fetch"
    /\ \E outcome \in {"ok", "fetch transport error", "fetch decode error"} :
         unit' = [unit EXCEPT ![r] =
                    IF outcome = "ok"
                    THEN AfterFetch(Called(unit[r], "get"), strava[unit[r].aid])
                    ELSE Finish(Called(unit[r], "get"), "Err", outcome)]
    /\ UNCHANGED <<phase, db, conn, store, now, strava>>

\* The service applies an update.
Applied(acts, aid, params) ==
    [acts EXCEPT ![aid].name = params.name, ![aid].private = FormBool(params.private)]

\* An update whose status is not looked at.
AfterUpdate_IgnoreStatus(u, status) == [u EXCEPT !.pc = "insert", !.status = status]

\* What the PUT's status makes of the unit.
AfterUpdate(u, status) ==
    IF is_success(status)
    THEN [u EXCEPT !.pc = "insert", !.status = status]
    ELSE [Finish(u, "Ok", "update failed") EXCEPT !.status = status]

\* client.put(...).form(&params).send().await?
put_activity(r) ==
    /\ unit[r].pc = "update"
    /\ \/ \E status \in UpdateStatuses :
            /\ unit' = [unit EXCEPT ![r] = AfterUpdate(Called(unit[r], "put"), status)]
            /\ strava' = IF is_success(status)
                         THEN Applied(strava, unit[r].aid, unit[r].puts[1])
                         ELSE strava
       \/ \E applied \in BOOLEAN :
            /\ unit' = [unit EXCEPT ![r] =
                          Finish(Called(unit[r], "put"), "Err", "update transport error")]
            /\ strava' = IF applied
                         THEN Applied(strava, unit[r].aid, unit[r].puts[1])
                         ELSE strava
    /\ UNCHANGED <<phase, db, conn, store, now>>

\* INSERT INTO processed_activities (activity_id) VALUES (?) ... .await?
insert_processed(r) ==
    /\ unit[r].pc = "insert"
    /\ \E ok \in BOOLEAN :
         IF ~ok
         THEN /\ unit' = [unit EXCEPT ![r] =
                            Finish(Called(unit[r], "insert"), "Err", "insert failed")]
              /\ store' = store
         ELSE IF UniqueViolation(store, unit[r].aid)
         THEN /\ unit' = [unit EXCEPT ![r] =
                            Finish(Called(unit[r], "insert"), "Err",
                                   "unique constraint failed")]
              /\ store' = store
         ELSE /\ unit' = [unit EXCEPT ![r] =
                            [Finish(Called(unit[r], "insert"), "Ok", "updated") EXCEPT
                                !.rowid = NextRowId(store)]]
              /\ store' = InsertRow(store, unit[r].aid, now)
    /\ UNCHANGED <<phase, db, conn, now, strava>>

---------------------------------------------------------------------------
(* Specifications                                                          *)

Next ==
    \/ main_connect
    \/ main_migrate
    \/ main_serve
    \/ Tick
    \/ \E r \in Slots : webhook_handler(r)
    \/ \E r \in Slots : respond(r)
    \/ \E r \in Slots : select_processed(r)
    \/ \E r \in Slots : get_activity(r)
    \/ \E r \in Slots : put_activity(r)
    \/ \E r \in Slots : insert_processed(r)

Spec == Init /\ [][Next]_vars

\* One request, and every kind of activity behind id 101.
PipelineActivities ==
    {acts \in [ActivityIds -> AllActivities] :
        acts[102] = ActivityRecord(Walk, Monday, InBox)}

InitPipeline == InitWith(PipelineActivities)

NextPipeline ==
    \/ main_connect
    \/ main_migrate
    \/ main_serve
    \/ Tick
    \/ webhook_handler(1)
    \/ respond(1)
    \/ select_processed(1)
    \/ get_activity(1)
    \/ put_activity(1)
    \/ insert_processed(1)

SpecPipeline == InitPipeline /\ [][NextPipeline]_vars

---------------------------------------------------------------------------
(* Properties                                                              *)

Running == {"check", "fetch", "update", "insert"}

\* The unit decoded an Activity: it is past its SELECT and its GET.
Fetched(u) ==
    \/ u.pc \in {"update", "insert"}
    \/ /\ u.pc = "done"
       /\ u.why \notin {"select failed", "already processed",
                        "fetch transport error", "fetch decode error"}

\* C1: the processed_activities table holds at most one row per activity id,
\* in every reachable state and under every interleaving of the units.
C1_OneRowPerActivity ==
    \A row1 \in store, row2 \in store :
        row1.activity_id = row2.activity_id => row1 = row2

\* Two units for one activity both reached their INSERT; one row came of it.
C1_Witness ==
    \E r1 \in Slots, r2 \in Slots :
        /\ unit[r1].aid = unit[r2].aid
        /\ unit[r1].why = "updated"
        /\ unit[r2].why = "unique constraint failed"
        /\ HasRow(store, unit[r1].aid)

\* C2: when the SELECT of process_activity(X) answers and a row for X is in the
\* table, the unit ends there with Ok: it leaves the table and the service as
\* they are, and a unit that ended so has sent no update and inserted no row.
C2_Idempotent ==
    /\ [](\A r \in Slots :
            unit[r].why = "already processed" =>
                /\ unit[r].pc = "done"
                /\ unit[r].result = "Ok"
                /\ unit[r].puts = <<>>
                /\ unit[r].rowid = 0)
    /\ [][\A r \in Slots :
            (/\ unit[r].pc = "check"
             /\ unit'[r].pc # "check"
             /\ unit'[r].why # "select failed"
             /\ HasRow(store, unit[r].aid))
            => (/\ unit'[r].why = "already processed"
                /\ store' = store
                /\ strava' = strava)]_vars

\* A unit found its activity's row and returned.
C2_Witness ==
    \E r \in Slots :
        unit[r].why = "already processed" /\ HasRow(store, unit[r].aid)

\* C3: a row for X is inserted only by a unit for X whose update call answered
\* with a success status, after that answer; a unit whose update call answered
\* with another status, or failed in transport, inserts no row and leaves the
\* table as it is.
C3_InsertOnlyAfterSuccess ==
    /\ [](\A row \in store : \E r \in Slots :
            /\ unit[r].rowid = row.id
            /\ unit[r].aid = row.activity_id
            /\ Len(unit[r].puts) = 1
            /\ is_success(unit[r].status))
    /\ [](\A r \in Slots :
            unit[r].why \in {"update failed", "update transport error"} =>
                unit[r].rowid = 0)
    /\ [][store' # store =>
            \E r \in Slots :
                /\ unit[r].pc = "insert"
                /\ is_success(unit[r].status)
                /\ unit'[r].rowid # 0
                /\ store' = store \cup {[id |-> unit'[r].rowid,
                                         activity_id |-> unit[r].aid,
                                         processed_at |-> now]}]_vars
    /\ [][\A r \in Slots :
            unit[r].pc = "update" /\ unit'[r].pc = "done" => store' = store]_vars

\* One unit's update was refused and its activity has no row; another unit's
\* update succeeded and it inserted its row.
C3_Witness ==
    \E r1 \in Slots, r2 \in Slots :
        /\ unit[r1].why = "update failed"
        /\ ~is_success(unit[r1].status)
        /\ ~HasRow(store, unit[r1].aid)
        /\ unit[r2].why = "updated"
        /\ HasRow(store, unit[r2].aid)

\* The condition C4 states, in its own words, on an activity of the service.
WeekdaysMonToFri == {"Mon", "Tue", "Wed", "Thu", "Fri"}

C4_Condition(a) ==
    LET dt == parse_from_rfc3339(a.start_date_local)
        cs == a.start_latlng.coords
    IN  /\ to_lowercase(a.type) = <<"w","a","l","k">>
        /\ weekday(dt.y, dt.m, dt.d) \in WeekdaysMonToFri
        /\ a.start_latlng.present
        /\ Len(cs) >= 2
        /\ 400 <= cs[1] /\ cs[1] <= 410
        /\ 0 - 740 <= cs[2] /\ cs[2] <= 0 - 730

\* C4: a unit that found no row, decoded the activity and parsed its timestamp
\* has sent the update call if and only if the type is "walk" in any case, the
\* weekday is Monday to Friday and the first two coordinates are in the closed
\* box [40.0, 41.0] x [-74.0, -73.0]; the call it sent carries name "Rusty" and
\* private true, and it sent one call.
C4_UpdateIffFiltersPass ==
    \A r \in Slots :
        LET u == unit[r]
            a == strava[u.aid]
        IN  (Fetched(u) /\ parse_from_rfc3339(a.start_date_local).ok) =>
                /\ (u.puts # <<>>) <=> C4_Condition(a)
                /\ u.puts # <<>> =>
                     /\ Len(u.puts) = 1
                     /\ u.puts[1].name = "Rusty"
                     /\ FormBool(u.puts[1].private) = TRUE

\* An upper-case walk on a Friday at the corner (40.0, -73.0) of the box was
\* updated and recorded.
C4_Witness ==
    \E r \in Slots :
        LET u == unit[r]
            a == strava[u.aid]
        IN  /\ u.why = "updated"
            /\ a.type = <<"W","A","L","K">>
            /\ a.start_date_local = Timestamp("rfc3339", 2024, 1, 5)
            /\ a.start_latlng.coords = <<400, 0 - 730>>
            /\ a.name = "Rusty" /\ a.private = TRUE

\* A timestamp string that is no RFC 3339 date-time.
C5_Unparseable(ts) == ts.form # "rfc3339" \/ ~ValidDate(ts.y, ts.m, ts.d)

\* C5: a unit whose activity passes the type filter and whose timestamp does
\* not parse ends with Err (a filter rejection ends with Ok); it has sent no
\* update call and inserted no row.
C5_BadTimestampIsError ==
    \A r \in Slots :
        LET u == unit[r]
            a == strava[u.aid]
        IN  (/\ Fetched(u)
             /\ to_lowercase(a.type) = <<"w","a","l","k">>
             /\ C5_Unparseable(a.start_date_local)) =>
                /\ u.pc = "done"
                /\ u.result = "Err"
                /\ u.why = "timestamp parse error"
                /\ u.puts = <<>>
                /\ u.rowid = 0
                /\ store = {}
                /\ a.name # "Rusty"

\* A walk inside the box whose timestamp is "not-a-date" ended its unit with Err.
C5_Witness ==
    \E r \in Slots :
        LET u == unit[r]
            a == strava[u.aid]
        IN  /\ u.result = "Err"
            /\ u.why = "timestamp parse error"
            /\ a.start_date_local = NotADate
            /\ a.type = Walk
            /\ a.start_latlng = InBox

\* C6: a GET with hub.challenge=T and no JSON body is answered 200 with body T,
\* spawns no unit and leaves the table alone.
C6_VerificationEcho ==
    \A r \in Slots :
        (/\ conn[r].state = "pending"
         /\ conn[r].req.method = "GET"
         /\ conn[r].req.query.present
         /\ conn[r].req.body.kind = "none") =>
            /\ conn[r].resp = [status |-> 200, body |-> conn[r].req.query.value]
            /\ unit[r].pc = "none"

\* C7: every POST is answered 200 with body "OK", whatever its body.
C7_PostAlwaysOk ==
    \A r \in Slots :
        (conn[r].state = "pending" /\ conn[r].req.method = "POST") =>
            conn[r].resp = [status |-> 200, body |-> "OK"]

\* C8: a POST with a JSON body spawns a unit if and only if the body decodes
\* as a StravaEvent whose object_type is exactly "activity", and then the unit
\* is for the event's object_id.
C8_DispatchIffActivityEvent ==
    \A r \in Slots :
        (/\ conn[r].state = "pending"
         /\ conn[r].req.method = "POST"
         /\ conn[r].req.body.kind = "json") =>
            LET event == from_value_StravaEvent(conn[r].req.body.json) IN
            /\ (unit[r].pc # "none") <=> (event.ok /\ event.object_type = "activity")
            /\ unit[r].pc # "none" => unit[r].aid = event.object_id

\* A step of the unit of slot r.
UnitStep(r) ==
    \/ select_processed(r)
    \/ get_activity(r)
    \/ put_activity(r)
    \/ insert_processed(r)

\* C9: the response of a request that spawned a unit is 200 "OK" and can be
\* written wherever that unit and the other units are (at an await, failed or
\* finished), and every unit that is at an await can take its step wherever
\* the other units and the responses are.
C9_FireAndForget ==
    /\ \A r \in Slots :
          (conn[r].state = "pending" /\ unit[r].pc # "none") =>
              /\ conn[r].resp = [status |-> 200, body |-> "OK"]
              /\ ENABLED respond(r)
    /\ \A r \in Slots : unit[r].pc \in Running => ENABLED UnitStep(r)

\* A response was written while its unit waits for its first answer, and a
\* later request was answered and its unit ran to the end past the waiting one.
C9_Witness ==
    \E r1 \in Slots, r2 \in Slots :
        /\ conn[r1].state = "sent" /\ unit[r1].pc = "check"
        /\ conn[r2].state = "sent" /\ unit[r2].why = "updated"
        /\ unit[r1].aid = unit[r2].aid

\* C10: no step removes or changes a row of the table.
C10_AppendOnly == [][store \subseteq store']_vars

\* A row outlived a later insert and the passing of time.
C10_Witness ==
    \E row1 \in store, row2 \in store :
        row1.id < row2.id /\ row1.processed_at < now

\* C11: when the pool cannot be opened or the table cannot be created, main
\* ends with the error and from then on no request is taken and no unit runs;
\* the listener is up, and requests are handled, only with the pool open and
\* the table created.
C11_FailFastStartup ==
    /\ [](~db.open /\ phase # "start" => phase = "failed")
    /\ [](db.open /\ ~db.table /\ phase # "connected" => phase = "failed")
    /\ [](\A r \in Slots :
            (phase = "listening" \/ conn[r].state # "idle" \/ unit[r].pc # "none")
                => (db.open /\ db.table))
    /\ [][phase = "failed" =>
            (phase' = "failed" /\ conn' = conn /\ unit' = unit /\ store' = store)]_vars

\* The pool opened, the table could not be created, and main has ended with
\* no request taken.
C11_Witness ==
    /\ phase = "failed"
    /\ db.open /\ ~db.table
    /\ \A r \in Slots : conn[r].state = "idle" /\ unit[r].pc = "none"

\* C12: the type filter comes first and the calendar filter second: a unit
\* whose activity is not a walk ends rejected (Ok, no update call, no row) also
\* when the timestamp does not parse, and a unit whose walk is on a Saturday
\* or Sunday ends rejected whatever the coordinates are.
C12_FiltersInOrder ==
    \A r \in Slots :
        LET u  == unit[r]
            a  == strava[u.aid]
            ts == a.start_date_local
            rejected(why) ==
                /\ u.pc = "done" /\ u.result = "Ok" /\ u.why = why
                /\ u.puts = <<>> /\ u.rowid = 0 /\ store = {}
        IN  Fetched(u) =>
              /\ to_lowercase(a.type) # <<"w","a","l","k">> => rejected("not a walk")
              /\ (/\ to_lowercase(a.type) = <<"w","a","l","k">>
                  /\ ~C5_Unparseable(ts)
                  /\ weekday(ts.y, ts.m, ts.d) \in {"Sat", "Sun"})
                     => rejected("weekend")

\* A Saturday walk whose start_latlng holds one number was rejected as a
\* weekend activity.
C12_Witness ==
    \E r \in Slots :
        LET u == unit[r]
            a == strava[u.aid]
        IN  /\ u.result = "Ok" /\ u.why = "weekend"
            /\ a.start_date_local = Timestamp("rfc3339", 2024, 1, 6)
            /\ a.start_latlng = Coords(TRUE, <<405>>)

\* The units for activity id whose INSERT the table has executed.
Inserters(id) ==
    {r \in Slots : /\ unit[r].aid = id
                   /\ unit[r].why \in {"updated", "unique constraint failed"}}

RowsOf(id) == {row \in store : row.activity_id = id}

\* C13 as stated: of two units for one id that both passed the check and both
\* sent the update call, once both have ended exactly one has inserted the row
\* and the other has failed on the uniqueness constraint.
C13_EveryRaceEndsInOneConflict ==
    \A r1 \in Slots, r2 \in Slots :
        (/\ r1 # r2
         /\ unit[r1].aid = unit[r2].aid
         /\ unit[r1].puts # <<>> /\ unit[r2].puts # <<>>
         /\ unit[r1].pc = "done" /\ unit[r2].pc = "done") =>
            /\ {unit[r1].why, unit[r2].why} = {"updated", "unique constraint failed"}
            /\ Cardinality(RowsOf(unit[r1].aid)) = 1

\* C13, amended: of the units for one id whose update call succeeded and whose
\* INSERT the table executed, exactly one inserted the row; every other one
\* failed on the uniqueness constraint and ended there with Err, having made
\* its four calls and nothing after them, with the update left applied; the
\* table holds exactly one row for the id.
C13_OneInsertWins ==
    \A id \in ActivityIds :
        Inserters(id) # {} =>
            /\ Cardinality({r \in Inserters(id) : unit[r].why = "updated"}) = 1
            /\ Cardinality(RowsOf(id)) = 1
            /\ \A r \in Inserters(id) :
                  /\ unit[r].pc = "done"
                  /\ unit[r].calls = <<"select", "get", "put", "insert">>
                  /\ Len(unit[r].puts) = 1
                  /\ unit[r].why = "updated" =>
                        /\ unit[r].result = "Ok"
                        /\ \E row \in RowsOf(id) : row.id = unit[r].rowid
                  /\ unit[r].why = "unique constraint failed" =>
                        /\ unit[r].result = "Err"
                        /\ unit[r].rowid = 0
                        /\ strava[id].name = "Rusty" /\ strava[id].private = TRUE

\* Two units for one id both passed the check and both sent the update; one
\* inserted the row and the other was refused by the constraint.
C13_Witness ==
    \E r1 \in Slots, r2 \in Slots :
        /\ r1 # r2
        /\ unit[r1].aid = unit[r2].aid
        /\ unit[r1].why = "updated"
        /\ unit[r2].why = "unique constraint failed"
        /\ unit[r2].result = "Err"
        /\ Cardinality(RowsOf(unit[r1].aid)) = 1

\* The calls of process_activity, in program order.
CallOrder == <<"select", "get", "put", "insert">>

IsPrefix(s, t) == Len(s) <= Len(t) /\ \A i \in 1..Len(s) : s[i] = t[i]

\* C14: a unit makes its calls at most once each and in the order SELECT, GET,
\* PUT, INSERT; a unit whose SELECT, GET or decoding failed has ended there
\* with Err, with no update call sent and no insert made; a unit that has
\* ended takes no further step.
C14_NoRetry ==
    /\ [](\A r \in Slots :
            LET u == unit[r] IN
            /\ IsPrefix(u.calls, CallOrder)
            /\ Len(u.puts) <= 1
            /\ u.puts # <<>> => Len(u.calls) >= 2
            /\ u.why = "select failed" =>
                  /\ u.pc = "done" /\ u.result = "Err"
                  /\ u.calls = <<"select">>
                  /\ u.puts = <<>> /\ u.rowid = 0
            /\ u.why \in {"fetch transport error", "fetch decode error"} =>
                  /\ u.pc = "done" /\ u.result = "Err"
                  /\ u.calls = <<"select", "get">>
                  /\ u.puts = <<>> /\ u.rowid = 0)
    /\ [][\A r \in Slots : unit[r].pc = "done" => unit'[r] = unit[r]]_vars

\* One unit ended at a GET whose answer did not decode, another at a failed
\* SELECT; neither went further.
C14_Witness ==
    \E r1 \in Slots, r2 \in Slots :
        /\ unit[r1].why = "fetch decode error"
        /\ unit[r1].calls = <<"select", "get">>
        /\ unit[r2].why = "select failed"
        /\ unit[r2].calls = <<"select">>

\* The system with the runtime's scheduling: a spawned task is polled again
\* whenever the call it awaits has returned, and every call returns.
SpecFair == Init /\ [][Next]_vars /\ \A r \in Slots : WF_vars(UnitStep(r))

\* C15: every spawned unit ends (with Ok, Err or a panic), whether or not the
\* response of the request that spawned it is ever written.
C15_UnitsTerminate ==
    \A r \in Slots : (unit[r].pc \in Running) ~> (unit[r].pc = "done")

\* A unit ran to its end while the response of its request was still unwritten.
C15_Witness ==
    \E r \in Slots :
        /\ conn[r].state = "pending"
        /\ unit[r].pc = "done"
        /\ unit[r].calls = CallOrder

\* C16: a GET never spawns a unit, and a POST is never answered with the
\* hub.challenge token of its query string.
C16_TwoRequestShapes ==
    \A r \in Slots :
        conn[r].state = "pending" =>
            /\ conn[r].req.method = "GET" => unit[r].pc = "none"
            /\ (conn[r].req.method = "POST" /\ conn[r].req.query.present) =>
                  conn[r].resp.body # conn[r].req.query.value

\* C17: no unit ends in a panic, and a unit whose activity passes the type and
\* calendar filters and holds no coordinate pair (start_latlng absent, or an
\* array of fewer than two numbers) ends rejected: Ok, no update call, no row.
C17_NoPanicInGeofence ==
    \A r \in Slots :
        LET u  == unit[r]
            a  == strava[u.aid]
            ts == a.start_date_local
        IN  /\ u.result # "Panic"
            /\ (/\ Fetched(u)
                /\ to_lowercase(a.type) = <<"w","a","l","k">>
                /\ ~C5_Unparseable(ts)
                /\ weekday(ts.y, ts.m, ts.d) \in WeekdaysMonToFri
                /\ (~a.start_latlng.present \/ Len(a.start_latlng.coords) < 2)) =>
                   /\ u.pc = "done" /\ u.result = "Ok"
                   /\ u.puts = <<>> /\ u.rowid = 0

====
